---- MODULE Spec2Model ----
(***************************************************************************)
(* Timeline mutation engine of cursorvid3: the TimelineStore (clip list,   *)
(* undo/redo history, listeners), the TimelineOps editing verbs, the       *)
(* ExecutorAgent and the plan loop that drives them.                       *)
(*                                                                         *)
(* JavaScript objects are modelled with their identity: every array and    *)
(* every clip record carries the reference (ref) of the object it is, so   *)
(* that "the same object" and "a copy with the same contents" differ.      *)
(* JavaScript numbers are modelled as tagged values so that NaN and the    *)
(* null that JSON writes for it are values of their own.                   *)
(***************************************************************************)
EXTENDS Integers, Sequences, FiniteSets, TLC

\* ------------------------------------------------------------------------
\* Bounds of the model
\* ------------------------------------------------------------------------
\* number of store-level calls by the store's clients in one behaviour
MaxSteps == 4
\* number of steps of the longest plan
MaxPlan == 3
\* the clock runs from 0 to MaxClock
MaxClock == 1
\* number of user edits while a plan runs
MaxEdits == 1
\* single AI actions applied
MaxActions == 3

\* ------------------------------------------------------------------------
\* JavaScript values
\* ------------------------------------------------------------------------
Num(n) == [t |-> "num", n |-> n]
NaN == [t |-> "NaN", n |-> 0]
Null == [t |-> "null", n |-> 0]

\* ToNumber of a value that is a number or null (null converts to 0)
ToNum(v) == IF v.t = "null" THEN Num(0) ELSE v

\* a === b on numbers / null: NaN is equal to nothing
StrictEq(a, b) == a.t # "NaN" /\ b.t # "NaN" /\ a = b

\* a > b: false as soon as one side is NaN
Gt(a, b) == ToNum(a).t = "num" /\ ToNum(b).t = "num" /\ ToNum(a).n > ToNum(b).n

\* a - b
Sub(a, b) == IF ToNum(a).t = "NaN" \/ ToNum(b).t = "NaN" THEN NaN
             ELSE Num(ToNum(a).n - ToNum(b).n)

\* Math.max(0, a)
Max0(a) == IF ToNum(a).t = "NaN" THEN NaN
           ELSE IF ToNum(a).n > 0 THEN ToNum(a) ELSE Num(0)

\* what JSON.parse(JSON.stringify(v)) gives for a number: NaN is written as null
JSONValue(v) == IF v.t = "NaN" THEN Null ELSE v

\* ------------------------------------------------------------------------
\* Clips and clip lists
\* ------------------------------------------------------------------------
\* a clip object: its identity and the fields the operations read or write
Clip(r, i, tr, st, du) ==
    [ref |-> r, id |-> i, trackId |-> tr, startTime |-> st, duration |-> du]

\* a clip array object
List(r, items) == [ref |-> r, items |-> items]

\* the contents of a clip, without its identity
PlainClip(c) ==
    [id |-> c.id, trackId |-> c.trackId, startTime |-> c.startTime, duration |-> c.duration]

\* the contents of a list, without identities: what deep-equal compares
Plain(l) == [i \in 1..Len(l.items) |-> PlainClip(l.items[i])]

DeepEqual(a, b) == Plain(a) = Plain(b)

\* the references of the clip records of a list
RecordRefs(l) == {l.items[i].ref : i \in 1..Len(l.items)}

Ids(l) == {l.items[i].id : i \in 1..Len(l.items)}

\* { ...c, ...updates } as a new object r
Field(u, f, d) == IF f \in DOMAIN u THEN u[f] ELSE d
Merge(c, u, r) ==
    Clip(r, Field(u, "id", c.id), Field(u, "trackId", c.trackId),
         Field(u, "startTime", c.startTime), Field(u, "duration", c.duration))

\* JSON.parse(JSON.stringify(list)): a new array r of new records r+1.. r+n
JSONClone(l, r) ==
    List(r, [i \in 1..Len(l.items) |->
               Clip(r + i, l.items[i].id, JSONValue(l.items[i].trackId),
                    JSONValue(l.items[i].startTime), JSONValue(l.items[i].duration))])

\* array.filter
RECURSIVE FilterOut(_, _)
FilterOut(items, id) ==
    IF items = <<>> THEN <<>>
    ELSE IF Head(items).id = id THEN FilterOut(Tail(items), id)
         ELSE <<Head(items)>> \o FilterOut(Tail(items), id)

\* INITIAL_CLIPS
INITIAL_CLIPS ==
    List(1, << Clip(2, "c1", Num(1), Num(0), Num(5)),
               Clip(3, "c2", Num(1), Num(5), Num(8)) >>)

FirstFreeRef == 4

\* the callbacks a caller may register
Callbacks == {"cb"}

NoList == List(0, <<>>)

VARIABLES
    clips,      \* TimelineStore.clips: the live clip array
    past,       \* TimelineStore.history.past
    future,     \* TimelineStore.history.future
    listeners,  \* TimelineStore.listeners
    nextRef,    \* the next unused object reference
    calls,      \* per callback: how often it was invoked
    last,       \* per callback: the list of its latest invocation
    subscribed, \* per callback: "never", "active" (subscribed, handle not called), "ended"
    expected,   \* per callback: invocations owed by subscribe calls and mutations
    snap,       \* a list a caller got from getClips() and still holds
    op,         \* the latest store calls, newest last
    pre,        \* clips, past, future before the latest call
    preM,       \* the live list before the latest mutating primitive
    postM,      \* the live list after the latest mutating primitive
    preU,       \* the live list before the latest effective undo
    steps,      \* number of calls made
    ripple,     \* the latest effective rippleDelete and the undo() calls after it
    plan,       \* the plan steps given to executePlanWithVerification
    idx,        \* the plan step in progress
    phase,      \* where the plan loop is suspended
    pending,    \* the function call in execution while it is suspended
    results,    \* the report's results list
    resolved,   \* per plan step: what the intent-resolution oracle answered
    now,        \* Date.now()
    trace,      \* what happened to the steps, oldest first
    lastExec,   \* the latest call of execute() and how it settled
    verdict     \* the latest call of verify() and how it settled

vars == <<clips, past, future, listeners, nextRef, calls, last, subscribed,
          expected, snap, op, pre, preM, postM, preU, steps, ripple,
          plan, idx, phase, pending, results, resolved, now, trace, lastExec, verdict>>

planVars == <<plan, idx, phase, pending, results, resolved, now, trace, lastExec, verdict>>

\* ------------------------------------------------------------------------
\* TimelineStore
\* ------------------------------------------------------------------------
\* the store as one value s: [clips, past, future, listeners, nextRef, calls, last]
Store ==
    [clips |-> clips, past |-> past, future |-> future, listeners |-> listeners,
     nextRef |-> nextRef, calls |-> calls, last |-> last]

getClips(s) == s.clips

notify(s) ==
    [s EXCEPT !.calls = [cb \in Callbacks |->
                            IF cb \in s.listeners THEN s.calls[cb] + 1 ELSE s.calls[cb]],
              !.last = [cb \in Callbacks |->
                            IF cb \in s.listeners THEN s.clips ELSE s.last[cb]]]

\* saveHistory that forgets to reset history.future
saveHistoryKeepsFuture(s) ==
    [s EXCEPT !.past = Append(s.past, JSONClone(s.clips, s.nextRef)),
              !.nextRef = s.nextRef + Len(s.clips.items) + 1]

saveHistory(s) ==
    [s EXCEPT !.past = Append(s.past, JSONClone(s.clips, s.nextRef)),
              !.future = <<>>,
              !.nextRef = s.nextRef + Len(s.clips.items) + 1]

\* newClips is the caller's array object
setClips(s, newClips) ==
    LET h == saveHistory(s)
    IN  notify([h EXCEPT !.clips = newClips])

\* addClip that pushes onto the live array instead of building a new one
addClipInPlace(s, clip) ==
    LET h == saveHistory(s)
    IN  notify([h EXCEPT !.clips = List(h.clips.ref, Append(h.clips.items, clip))])

\* clip is the caller's record object; [...this.clips, clip] is a new array
addClip(s, clip) ==
    LET h == saveHistory(s)
    IN  notify([h EXCEPT !.clips = List(h.nextRef, Append(h.clips.items, clip)),
                         !.nextRef = h.nextRef + 1])

removeClip(s, id) ==
    LET h == saveHistory(s)
    IN  notify([h EXCEPT !.clips = List(h.nextRef, FilterOut(h.clips.items, id)),
                         !.nextRef = h.nextRef + 1])

\* updateClip with the test of the map inverted (c.id !== id)
updateClipOthers(s, id, updates) ==
    LET h == saveHistory(s)
        n == Len(h.clips.items)
    IN  notify([h EXCEPT !.clips = List(h.nextRef,
                            [i \in 1..n |->
                               IF h.clips.items[i].id # id
                               THEN Merge(h.clips.items[i], updates, h.nextRef + i)
                               ELSE h.clips.items[i]]),
                         !.nextRef = h.nextRef + n + 1])

\* map: a new array; a matching clip becomes a new record, the others are kept
updateClip(s, id, updates) ==
    LET h == saveHistory(s)
        n == Len(h.clips.items)
    IN  notify([h EXCEPT !.clips = List(h.nextRef,
                            [i \in 1..n |->
                               IF h.clips.items[i].id = id
                               THEN Merge(h.clips.items[i], updates, h.nextRef + i)
                               ELSE h.clips.items[i]]),
                         !.nextRef = h.nextRef + n + 1])

moveClip(s, id, startTime, trackId) ==
    LET h == saveHistory(s)
        n == Len(h.clips.items)
    IN  notify([h EXCEPT !.clips = List(h.nextRef,
                            [i \in 1..n |->
                               IF h.clips.items[i].id = id
                               THEN Merge(h.clips.items[i],
                                          [startTime |-> startTime, trackId |-> trackId],
                                          h.nextRef + i)
                               ELSE h.clips.items[i]]),
                         !.nextRef = h.nextRef + n + 1])

\* undo that pushes a JSON copy of the live list instead of the list itself
undoCopies(s) ==
    IF Len(s.past) = 0 THEN s
    ELSE LET previous == s.past[Len(s.past)]
         IN  notify([s EXCEPT !.past = SubSeq(s.past, 1, Len(s.past) - 1),
                              !.future = <<JSONClone(s.clips, s.nextRef)>> \o s.future,
                              !.nextRef = s.nextRef + Len(s.clips.items) + 1,
                              !.clips = previous])

\* undo without the test of history.past.length: pop() gives undefined
undoUnguarded(s) ==
    LET previous == IF Len(s.past) = 0 THEN NoList ELSE s.past[Len(s.past)]
    IN  notify([s EXCEPT !.past = SubSeq(s.past, 1, Len(s.past) - 1),
                         !.future = <<s.clips>> \o s.future,
                         !.clips = previous])

undo(s) ==
    IF Len(s.past) = 0 THEN s
    ELSE LET previous == s.past[Len(s.past)]
         IN  notify([s EXCEPT !.past = SubSeq(s.past, 1, Len(s.past) - 1),
                              !.future = <<s.clips>> \o s.future,
                              !.clips = previous])

redo(s) ==
    IF Len(s.future) = 0 THEN s
    ELSE LET next == Head(s.future)
         IN  notify([s EXCEPT !.future = Tail(s.future),
                              !.past = Append(s.past, s.clips),
                              !.clips = next])

canUndo(s) == Len(s.past) > 0
canRedo(s) == Len(s.future) > 0

\* subscribe without the initial emit
subscribeSilent(s, fn) == [s EXCEPT !.listeners = s.listeners \cup {fn}]

\* subscribe(fn): add to the set, then the initial emit to fn alone
subscribe(s, fn) ==
    [s EXCEPT !.listeners = s.listeners \cup {fn},
              !.calls = [s.calls EXCEPT ![fn] = s.calls[fn] + 1],
              !.last = [s.last EXCEPT ![fn] = s.clips]]

\* the handle subscribe returns: () => this.listeners.delete(fn)
unsubscribe(s, fn) == [s EXCEPT !.listeners = s.listeners \ {fn}]

\* ------------------------------------------------------------------------
\* TimelineOps
\* ------------------------------------------------------------------------
\* clips.find(c => c.id === clipId): the index of the first match, 0 if none
FindIndex(items, id) ==
    IF \E i \in 1..Len(items) : items[i].id = id
    THEN CHOOSE i \in 1..Len(items) :
            items[i].id = id /\ \A j \in 1..(i - 1) : items[j].id # id
    ELSE 0

\* filter(c => c.trackId === clip.trackId && c.startTime > clip.startTime)
RECURSIVE ClipsToShift(_, _)
ClipsToShift(items, clip) ==
    IF items = <<>> THEN <<>>
    ELSE IF StrictEq(Head(items).trackId, clip.trackId)
              /\ Gt(Head(items).startTime, clip.startTime)
         THEN <<Head(items)>> \o ClipsToShift(Tail(items), clip)
         ELSE ClipsToShift(Tail(items), clip)

\* clipsToShift.forEach(c => store.updateClip(c.id, {startTime: ...}))
RECURSIVE ShiftEach(_, _, _)
ShiftEach(s, toShift, clip) ==
    IF toShift = <<>> THEN s
    ELSE ShiftEach(updateClip(s, Head(toShift).id,
                              [startTime |-> Max0(Sub(Head(toShift).startTime, clip.duration))]),
                   Tail(toShift), clip)

updateClipProperty(s, clipId, property, value) ==
    updateClip(s, clipId, [f \in {property} |-> value])

\* rippleDelete without the lookup: removeClip is called for any id
rippleDeleteNoLookup(s, clipId) ==
    LET k == FindIndex(getClips(s).items, clipId)
    IN  IF k = 0 THEN removeClip(s, clipId)
        ELSE LET clip == getClips(s).items[k]
                 r == removeClip(s, clipId)
             IN  ShiftEach(r, ClipsToShift(getClips(r).items, clip), clip)

\* rippleDelete as one history step: the entry of the removal only
rippleDeleteBatched(s, clipId) ==
    LET k == FindIndex(getClips(s).items, clipId)
    IN  IF k = 0 THEN s
        ELSE LET clip == getClips(s).items[k]
                 r == removeClip(s, clipId)
             IN  [ShiftEach(r, ClipsToShift(getClips(r).items, clip), clip)
                    EXCEPT !.past = r.past]

rippleDelete(s, clipId) ==
    LET k == FindIndex(getClips(s).items, clipId)
    IN  IF k = 0 THEN s
        ELSE LET clip == getClips(s).items[k]
                 r == removeClip(s, clipId)
             IN  ShiftEach(r, ClipsToShift(getClips(r).items, clip), clip)

trimClip(s, clipId, newDuration) == updateClip(s, clipId, [duration |-> newDuration])

\* trackId is a number, or "undefined" when the argument is left out
opsMoveClip(s, clipId, startTime, trackId) ==
    LET k == FindIndex(getClips(s).items, clipId)
    IN  IF k = 0 THEN s
        ELSE moveClip(s, clipId, startTime,
                      IF trackId = "undefined" THEN getClips(s).items[k].trackId ELSE trackId)

opsAddClip(s, clip) == addClip(s, clip)

\* ------------------------------------------------------------------------
\* ExecutorAgent
\* ------------------------------------------------------------------------
\* loosely typed argument values: a string that is no number, and undefined
Str == [t |-> "str", n |-> 0]
Undefined == [t |-> "undef", n |-> 0]

\* Number(v)
Number(v) ==
    IF v.t = "num" THEN v
    ELSE IF v.t = "null" THEN Num(0)
    ELSE NaN

\* v || d
OrElse(v, d) == IF v.t \in {"NaN", "null", "undef"} \/ v = Num(0) THEN d ELSE v

\* args is undefined (ToolAction.parameters is optional)
NoArgs(args) == "missing" \in DOMAIN args

\* args.f of a numeric parameter, args.f of a string parameter
NumArg(args, f) == IF f \in DOMAIN args THEN args[f] ELSE Undefined
StrArg(args, f) == IF f \in DOMAIN args THEN args[f] ELSE "undefined"

\* the tool names of the switch that run without suspension
SyncTools == {"update_clip_property", "ripple_delete", "smart_trim"}

Succeeded(name, clipId) ==
    [success |-> TRUE, operation |-> name, clipId |-> clipId, error |-> ""]
Failed(name, message) ==
    [success |-> FALSE, operation |-> name, clipId |-> "undefined", error |-> message]

\* the default branch returning success instead of throwing
ExecuteAnything(s, name, args) ==
    IF NoArgs(args) /\ name \in SyncTools
    THEN [store |-> s, settled |-> "fulfilled",
          result |-> Failed(name, "Cannot read properties of undefined")]
    ELSE [store |-> IF name = "update_clip_property"
                    THEN updateClipProperty(s, StrArg(args, "clipId"), StrArg(args, "property"),
                                            Number(NumArg(args, "value")))
                    ELSE IF name = "ripple_delete"
                    THEN rippleDelete(s, StrArg(args, "clipId"))
                    ELSE IF name = "smart_trim"
                    THEN trimClip(s, StrArg(args, "clipId"), Number(NumArg(args, "newDuration")))
                    ELSE s,
          settled |-> "fulfilled",
          result |-> Succeeded(name, StrArg(args, "clipId"))]

\* the TypeError of reading a field of missing args escaping execute()
ExecuteUnguarded(s, name, args) ==
    IF name \in SyncTools /\ NoArgs(args)
    THEN [store |-> s, settled |-> "rejected", result |-> Failed("none", "")]
    ELSE ExecuteAnything(s, name, args)

\* the throw of the default branch escaping execute()
ExecuteUncaught(s, name, args) ==
    IF name \in SyncTools
    THEN ExecuteAnything(s, name, args)
    ELSE [store |-> s, settled |-> "rejected", result |-> Failed("none", "")]

\* execute({name, args}) for every name but generate_voiceover: the switch
\* inside try, and the catch that turns a throw into a failed result
Execute(s, name, args) ==
    IF name \in SyncTools
    THEN IF NoArgs(args)
         THEN [store |-> s, settled |-> "fulfilled",
               result |-> Failed(name, "Cannot read properties of undefined")]
         ELSE [store |-> IF name = "update_clip_property"
                         THEN updateClipProperty(s, StrArg(args, "clipId"),
                                                 StrArg(args, "property"),
                                                 Number(NumArg(args, "value")))
                         ELSE IF name = "ripple_delete"
                         THEN rippleDelete(s, StrArg(args, "clipId"))
                         ELSE trimClip(s, StrArg(args, "clipId"),
                                       Number(NumArg(args, "newDuration"))),
               settled |-> "fulfilled",
               result |-> Succeeded(name, StrArg(args, "clipId"))]
    ELSE [store |-> s, settled |-> "fulfilled",
          result |-> Failed(name, "Unknown operation: " \o name)]

\* `vo-${Date.now()}`
VoiceoverId(t) == "vo-" \o ToString(t)

\* the new clip appended to a list read before the suspension (the list as
\* it was before the latest store call) instead of the live one
ExecuteVoiceoverStale(s, args, audioDuration, t) ==
    LET stale == IF Len(s.past) = 0 THEN s ELSE [s EXCEPT !.clips = s.past[Len(s.past)]]
        newClip == Clip(s.nextRef, VoiceoverId(t),
                        OrElse(Number(NumArg(args, "trackId")), Num(2)),
                        Number(NumArg(args, "insertTime")),
                        OrElse(audioDuration, Num(5)))
    IN  [store |-> opsAddClip([stale EXCEPT !.nextRef = s.nextRef + 1], newClip),
         settled |-> "fulfilled",
         result |-> Succeeded("generate_voiceover", newClip.id)]

\* generate_voiceover after both awaits: build newClip and add it; audioDuration
\* is tempAudio.duration (NaN when the metadata did not load)
ExecuteVoiceover(s, args, audioDuration, t) ==
    IF "text" \notin DOMAIN args
    THEN [store |-> s, settled |-> "fulfilled",
          result |-> Failed("generate_voiceover", "Cannot read properties of undefined")]
    ELSE LET newClip == Clip(s.nextRef, VoiceoverId(t),
                             OrElse(Number(NumArg(args, "trackId")), Num(2)),
                             Number(NumArg(args, "insertTime")),
                             OrElse(audioDuration, Num(5)))
         IN  [store |-> opsAddClip([s EXCEPT !.nextRef = s.nextRef + 1], newClip),
              settled |-> "fulfilled",
              result |-> Succeeded("generate_voiceover", newClip.id)]

\* the rejection of generateSpeech escaping execute()
ExecuteSpeechRethrows(s, args) ==
    [store |-> s, settled |-> "rejected", result |-> Failed("none", "")]

\* the rejection of generateSpeech swallowed: a clip of the default length
ExecuteSpeechSilent(s, args) == ExecuteVoiceover(s, args, NaN, 0)

\* generate_voiceover when generateSpeech rejects: the catch returns the
\* failed result, no store call was made
ExecuteSpeechFailed(s, args) ==
    [store |-> s, settled |-> "fulfilled",
     result |-> Failed("generate_voiceover", "generateSpeech failed")]

\* ------------------------------------------------------------------------
\* Calls of the store by its clients
\* ------------------------------------------------------------------------
Mutators == {"setClips", "addClip", "removeClip", "updateClip", "moveClip"}

\* the latest three calls
Latest(o) == IF Len(o) > 3 THEN SubSeq(o, Len(o) - 2, Len(o)) ELSE o

LastOp == IF Len(op) = 0 THEN [name |-> "none", id |-> ""] ELSE op[Len(op)]

\* the store takes the value s
Commit(s) ==
    /\ clips' = s.clips
    /\ past' = s.past
    /\ future' = s.future
    /\ listeners' = s.listeners
    /\ nextRef' = s.nextRef
    /\ calls' = s.calls
    /\ last' = s.last

\* no rippleDelete was made, or another call than undo() came after it
NoRipple == [list |-> NoList, id |-> "", depth |-> 0, undos |-> 0]

\* one call `name` that takes the store to s and emits `emits` notifications
Call(name, id, s, emits) ==
    /\ steps < MaxSteps
    /\ steps' = steps + 1
    /\ Commit(s)
    /\ op' = Latest(Append(op, [name |-> name, id |-> id]))
    /\ pre' = [clips |-> clips, past |-> past, future |-> future]
    /\ expected' = [cb \in Callbacks |->
                      IF subscribed[cb] = "active" THEN expected[cb] + emits
                      ELSE expected[cb]]
    /\ ripple' = IF name = "rippleDelete" /\ id \in Ids(clips)
                 THEN [list |-> clips, id |-> id, depth |-> Len(past), undos |-> 0]
                 ELSE IF name = "undo" /\ ripple # NoRipple
                 THEN [ripple EXCEPT !.undos = ripple.undos + 1]
                 ELSE NoRipple
    /\ UNCHANGED planVars

\* a call of a mutating primitive
Mutation(name, id, s) ==
    /\ Call(name, id, s, 1)
    /\ preM' = clips
    /\ postM' = s.clips
    /\ UNCHANGED <<subscribed, snap, preU>>

\* store.setClips([ {id: 'c3', ...} ]) with an array the caller builds
SetClipsFresh ==
    LET l == List(nextRef, << Clip(nextRef + 1, "c3", Num(1), Num(0), Num(4)) >>)
    IN  Mutation("setClips", "", setClips([Store EXCEPT !.nextRef = nextRef + 2], l))

\* store.setClips(list) with a list the caller got from getClips() earlier
SetClipsHeld ==
    /\ snap # NoList
    /\ Mutation("setClips", "", setClips(Store, snap))

\* store.addClip({...}) with a record the caller builds
AddClip(f) ==
    Mutation("addClip", f.id,
             addClip([Store EXCEPT !.nextRef = nextRef + 1],
                     Clip(nextRef, f.id, f.trackId, f.startTime, f.duration)))

RemoveClip(id) == Mutation("removeClip", id, removeClip(Store, id))

UpdateClip(id, updates) == Mutation("updateClip", id, updateClip(Store, id, updates))

MoveClip(id, startTime, trackId) ==
    Mutation("moveClip", id, moveClip(Store, id, startTime, trackId))

Undo ==
    /\ Call(IF canUndo(Store) THEN "undo" ELSE "undoNoop", "", undo(Store),
            IF canUndo(Store) THEN 1 ELSE 0)
    /\ preU' = IF canUndo(Store) THEN clips ELSE preU
    /\ UNCHANGED <<subscribed, snap, preM, postM>>

Redo ==
    /\ Call(IF canRedo(Store) THEN "redo" ELSE "redoNoop", "", redo(Store),
            IF canRedo(Store) THEN 1 ELSE 0)
    /\ UNCHANGED <<subscribed, snap, preM, postM, preU>>

\* const handle = store.subscribe(cb)
Subscribe(cb) ==
    /\ steps < MaxSteps
    /\ steps' = steps + 1
    /\ Commit(subscribe(Store, cb))
    /\ op' = Latest(Append(op, [name |-> "subscribe", id |-> cb]))
    /\ pre' = [clips |-> clips, past |-> past, future |-> future]
    /\ subscribed' = [subscribed EXCEPT ![cb] = "active"]
    /\ expected' = [expected EXCEPT ![cb] = expected[cb] + 1]
    /\ UNCHANGED <<snap, preM, postM, preU, ripple>>
    /\ UNCHANGED planVars

\* handle()
Unsubscribe(cb) ==
    /\ subscribed[cb] # "never"
    /\ steps < MaxSteps
    /\ steps' = steps + 1
    /\ Commit(unsubscribe(Store, cb))
    /\ op' = Latest(Append(op, [name |-> "unsubscribe", id |-> cb]))
    /\ pre' = [clips |-> clips, past |-> past, future |-> future]
    /\ subscribed' = [subscribed EXCEPT ![cb] = "ended"]
    /\ UNCHANGED <<expected, snap, preM, postM, preU, ripple>>
    /\ UNCHANGED planVars

\* const list = store.getClips(), kept by the caller
GetClips ==
    /\ snap # getClips(Store)
    /\ snap' = getClips(Store)
    /\ UNCHANGED <<clips, past, future, listeners, nextRef, calls, last, subscribed,
                   expected, op, pre, preM, postM, preU, steps, ripple>>
    /\ UNCHANGED planVars

\* TimelineOps.rippleDelete(store, id): one store call per primitive it makes
RippleDelete(id) ==
    LET s == rippleDelete(Store, id)
    IN  /\ Call("rippleDelete", id, s, Len(s.past) - Len(past))
        /\ UNCHANGED <<subscribed, snap, preM, postM, preU>>

\* TimelineOps.moveClip(store, id, startTime, trackId?)
OpsMoveClip(id, startTime, trackId) ==
    LET s == opsMoveClip(Store, id, startTime, trackId)
    IN  /\ Call("opsMoveClip", id, s, Len(s.past) - Len(past))
        /\ UNCHANGED <<subscribed, snap, preM, postM, preU>>

\* new TimelineStore(INITIAL_CLIPS): the live list is the array it was given
InitStore ==
    /\ clips = INITIAL_CLIPS
    /\ past = <<>>
    /\ future = <<>>
    /\ listeners = {}
    /\ nextRef = FirstFreeRef
    /\ calls = [cb \in Callbacks |-> 0]
    /\ last = [cb \in Callbacks |-> NoList]
    /\ subscribed = [cb \in Callbacks |-> "never"]
    /\ expected = [cb \in Callbacks |-> 0]
    /\ snap = NoList
    /\ op = <<>>
    /\ pre = [clips |-> INITIAL_CLIPS, past |-> <<>>, future |-> <<>>]
    /\ preM = NoList
    /\ postM = NoList
    /\ preU = NoList
    /\ steps = 0
    /\ ripple = NoRipple

NoCall == [name |-> "none", args |-> [missing |-> TRUE]]

\* execute() was not called yet
NoExec == [name |-> "none", args |-> [missing |-> TRUE], settled |-> "pending",
           result |-> Failed("none", "")]

\* verify() was not called yet
NoVerdict == [settled |-> "pending", oracle |-> "none",
              result |-> [passed |-> FALSE, issues |-> <<>>, suggestion |-> "null"]]

\* no plan is given
NoPlan ==
    /\ plan = <<>>
    /\ idx = 0
    /\ phase = "idle"
    /\ pending = NoCall
    /\ results = <<>>
    /\ resolved = <<>>
    /\ now = 0
    /\ trace = <<>>
    /\ lastExec = NoExec
    /\ verdict = NoVerdict

Init == InitStore /\ NoPlan

\* the arguments the store's clients pass
StoreIds == {"c1", "zz"}
StoreAdds == { [id |-> "c3", trackId |-> Num(2), startTime |-> Num(9), duration |-> Num(2)] }
StoreUpdates == { [startTime |-> NaN], [duration |-> Num(3)] }

Next ==
    \/ SetClipsFresh
    \/ SetClipsHeld
    \/ \E f \in StoreAdds : AddClip(f)
    \/ \E id \in StoreIds : RemoveClip(id)
    \/ \E id \in StoreIds, u \in StoreUpdates : UpdateClip(id, u)
    \/ \E id \in StoreIds : MoveClip(id, Num(2), Num(2))
    \/ Undo
    \/ Redo
    \/ \E cb \in Callbacks : Subscribe(cb)
    \/ \E cb \in Callbacks : Unsubscribe(cb)
    \/ GetClips

Spec == Init /\ [][Next]_vars

\* the store's clients when every list they pass was built by themselves
NextFresh ==
    \/ SetClipsFresh
    \/ \E f \in StoreAdds : AddClip(f)
    \/ \E id \in StoreIds : RemoveClip(id)
    \/ \E id \in StoreIds, u \in StoreUpdates : UpdateClip(id, u)
    \/ \E id \in StoreIds : MoveClip(id, Num(2), Num(2))
    \/ Undo
    \/ Redo
    \/ \E cb \in Callbacks : Subscribe(cb)
    \/ \E cb \in Callbacks : Unsubscribe(cb)

SpecFresh == Init /\ [][NextFresh]_vars

\* ------------------------------------------------------------------------
\* Properties of the store
\* ------------------------------------------------------------------------
\* the call before the latest one
PrevOp == IF Len(op) < 2 THEN [name |-> "none", id |-> ""] ELSE op[Len(op) - 1]

HasNaN(l) == \E i \in 1..Len(l.items) : l.items[i].startTime = NaN

\* C1: undo() right after a mutating primitive m makes the live list
\* deep-equal to the list as it was just before m.
C1_UndoRestoresPreMutation ==
    (PrevOp.name \in Mutators /\ LastOp.name = "undo") => DeepEqual(clips, preM)

\* C2: m; undo(); redo() leaves the live list deep-equal to the list right
\* after m, and redo() right after an effective undo() restores the list that
\* the undo() replaced.
C2_RedoRestoresPostMutation ==
    /\ (Len(op) = 3 /\ op[1].name \in Mutators /\ op[2].name = "undo" /\ op[3].name = "redo")
          => DeepEqual(clips, postM)
    /\ (PrevOp.name = "undo" /\ LastOp.name = "redo") => DeepEqual(clips, preU)

C2_Witness ==
    /\ Len(op) = 3 /\ op[1].name = "updateClip" /\ op[2].name = "undo" /\ op[3].name = "redo"
    /\ HasNaN(clips)
    /\ DeepEqual(clips, postM)
    /\ ~ DeepEqual(clips, pre.clips)

\* C3: after undo(), any new mutating primitive (also one whose target id is
\* absent) leaves future empty, and a following redo() changes nothing.
C3_MutationClearsFuture ==
    /\ LastOp.name \in Mutators => future = <<>>
    /\ (PrevOp.name \in Mutators /\ LastOp.name \in {"redo", "redoNoop"})
          => /\ LastOp.name = "redoNoop"
             /\ clips = pre.clips /\ past = pre.past /\ future = pre.future

C3_Witness ==
    /\ Len(op) = 3 /\ op[1].name = "undo" /\ op[2].name \in Mutators /\ op[2].id = "zz"
    /\ op[3].name = "redoNoop"
    /\ future = <<>>

\* C4: a mutating primitive appends exactly one entry to past, deep-equal to
\* the live list before the call, keeps the older entries and empties future.
C4_MutationPushesPreSnapshot ==
    LastOp.name \in Mutators =>
        /\ Len(past) = Len(pre.past) + 1
        /\ SubSeq(past, 1, Len(pre.past)) = pre.past
        /\ DeepEqual(past[Len(past)], pre.clips)
        /\ future = <<>>

\* two lists are the same array or have a clip record in common
Aliased(a, b) == a.ref = b.ref \/ RecordRefs(a) \cap RecordRefs(b) # {}

\* C5: no entry of past or future is the same object as, or shares clip
\* records with, the live list or another history entry.
C5_NoAliasing ==
    LET h == past \o future
    IN  \A i \in 1..Len(h) :
           /\ ~ Aliased(h[i], clips)
           /\ \A j \in 1..Len(h) : j # i => ~ Aliased(h[i], h[j])

\* C6: removeClip, updateClip and moveClip with an id no clip has leave the
\* live list unchanged (same clips, same order, same field values).
C6_UnknownIdNoChange ==
    (LastOp.name \in {"removeClip", "updateClip", "moveClip"} /\ LastOp.id \notin Ids(pre.clips))
        => DeepEqual(clips, pre.clips)

C6_Witness ==
    /\ LastOp.name = "updateClip" /\ LastOp.id = "zz"
    /\ Len(clips.items) = 3
    /\ HasNaN(clips)

OpsIds == {"c1", "c2", "zz"}
OpsAdds ==
    { [id |-> "c3", trackId |-> Num(2), startTime |-> Num(9), duration |-> Num(2)],
      [id |-> "c2", trackId |-> Num(1), startTime |-> Num(9), duration |-> Num(2)],
      [id |-> "c2", trackId |-> Num(2), startTime |-> Num(9), duration |-> Num(2)] }

\* where TimelineOps.moveClip is asked to put a clip
MoveTo == Num(3)

NextOps ==
    \/ \E f \in OpsAdds : AddClip(f)
    \/ MoveClip("c2", Num(2), Num(1))
    \/ \E id \in OpsIds : OpsMoveClip(id, MoveTo, "undefined")
    \/ \E cb \in Callbacks : Subscribe(cb)
    \/ \E id \in OpsIds : RippleDelete(id)
    \/ Undo

SpecOps == Init /\ [][NextOps]_vars

\* the list before the call without its first clip of that id
WithoutAt(items, k) == SubSeq(items, 1, k - 1) \o SubSeq(items, k + 1, Len(items))

\* the clip rippleDelete deleted, and the clips that were left
Deleted == pre.clips.items[FindIndex(pre.clips.items, LastOp.id)]
Remaining == WithoutAt(pre.clips.items, FindIndex(pre.clips.items, LastOp.id))

\* c was on the track of d and started strictly later
After(c, d) == StrictEq(c.trackId, d.trackId) /\ Gt(c.startTime, d.startTime)

RippleDeleted == LastOp.name = "rippleDelete" /\ LastOp.id \in Ids(pre.clips)

\* C8: rippleDelete of an existing clip D removes D and gives every remaining
\* clip of D's track that started strictly later the start
\* max(0, oldStart - D.duration); no start is negative through the shift.
C8_RippleDeleteShift ==
    RippleDeleted =>
        /\ Len(clips.items) = Len(Remaining)
        /\ \A i \in 1..Len(Remaining) :
              /\ clips.items[i].id = Remaining[i].id
              /\ After(Remaining[i], Deleted) =>
                    /\ clips.items[i].startTime
                          = Max0(Sub(Remaining[i].startTime, Deleted.duration))
                    /\ ~ Gt(Num(0), clips.items[i].startTime)

\* C9: rippleDelete leaves the clips of other tracks and the clips of the
\* same track that did not start later unchanged in all fields, and changes
\* only startTime on the clips it shifts.
C9_RippleDeleteFrame ==
    RippleDeleted =>
        /\ Len(clips.items) = Len(Remaining)
        /\ \A i \in 1..Len(Remaining) :
              IF After(Remaining[i], Deleted)
              THEN PlainClip(clips.items[i])
                     = [PlainClip(Remaining[i]) EXCEPT !.startTime = clips.items[i].startTime]
              ELSE PlainClip(clips.items[i]) = PlainClip(Remaining[i])

UniqueIds(l) == \A i, j \in 1..Len(l.items) : l.items[i].id = l.items[j].id => i = j

\* ------------------------------------------------------------------------
\* OrchestratorAgent.executePlanWithVerification
\* ------------------------------------------------------------------------
StepId(i) == "s" \o ToString(i)
Plans == { [i \in 1..n |-> StepId(i)] : n \in 0..MaxPlan }

\* what the intent-resolution oracle may answer besides "no action"
PlanCalls ==
    { [name |-> "update_clip_property",
       args |-> [clipId |-> "c1", property |-> "startTime", value |-> Num(3)]],
      [name |-> "ripple_delete", args |-> [clipId |-> "c1"]],
      [name |-> "smart_trim", args |-> [clipId |-> "c2", newDuration |-> Num(4)]],
      [name |-> "smart_trim", args |-> [missing |-> TRUE]],
      [name |-> "generate_voiceover", args |-> [text |-> "hi", insertTime |-> Num(1)]],
      [name |-> "edit_timeline", args |-> [operations |-> <<>>]] }

\* the report entry of step i
ResolutionFailed(i) ==
    [step |-> plan[i], status |-> "resolution-failed", operation |-> "none"]
Executed(i, result) ==
    [step |-> plan[i], status |-> IF result.success THEN "success" ELSE "failed",
     operation |-> result.operation]

\* one entry of the trace: what happened, and to which step (0: no plan)
Event(kind, i) == [e |-> kind, i |-> i]

\* n history entries pushed on behalf of step i
Mutations(i, n) == [k \in 1..n |-> Event("mutation", i)]

\* the call names a clip the store s does not hold
LookupMiss(s, call) ==
    /\ call.name \in SyncTools
    /\ ~NoArgs(call.args)
    /\ StrArg(call.args, "clipId") \notin Ids(getClips(s))

\* what execute() did from its store calls to its return, e being its outcome
Finished(i, s, e) ==
    Mutations(i, Len(e.store.past) - Len(s.past))
        \o << Event(IF e.settled = "rejected" THEN "rejected"
                    ELSE IF e.result.success THEN "succeeded" ELSE "failed", i) >>

\* the store calls of the plan are not calls of the store's clients, and the
\* plan loop does not call the verifier
PlanStore(s) ==
    /\ Commit(s)
    /\ UNCHANGED <<subscribed, expected, snap, op, pre, preM, postM, preU, steps,
                   ripple, verdict>>

\* the next step taken up before this one is recorded
AdvanceEarly(entry, events) ==
    /\ results' = Append(results, entry)
    /\ pending' = NoCall
    /\ IF idx = Len(plan)
       THEN phase' = "done" /\ idx' = idx /\ trace' = trace \o events
       ELSE /\ phase' = "resolving"
            /\ idx' = idx + 1
            /\ trace' = trace \o << Event("resolving", idx + 1) >> \o events

\* record the entry of step idx and go on to the next step, or finish
Advance(entry, events) ==
    /\ results' = Append(results, entry)
    /\ pending' = NoCall
    /\ IF idx = Len(plan)
       THEN phase' = "done" /\ idx' = idx /\ trace' = trace \o events
       ELSE /\ phase' = "resolving"
            /\ idx' = idx + 1
            /\ trace' = trace \o events \o << Event("resolving", idx + 1) >>

\* execute(call) settles with outcome e: its caller goes on. The plan loop
\* records the result; a rejection is not caught by either caller
Settle(call, e, events) ==
    /\ lastExec' = [name |-> call.name, args |-> call.args, settled |-> e.settled,
                    result |-> e.result]
    /\ IF e.settled = "rejected"
       THEN /\ phase' = "rejected"
            /\ pending' = NoCall
            /\ trace' = trace \o events
            /\ UNCHANGED <<idx, results>>
       ELSE IF idx = 0
       THEN /\ phase' = "idle"
            /\ pending' = NoCall
            /\ trace' = trace \o events
            /\ UNCHANGED <<idx, results>>
       ELSE Advance(Executed(idx, e.result), events)

\* executePlanWithVerification(steps, onProgress) up to its first oracle call
StartPlan ==
    /\ phase = "idle"
    /\ IF Len(plan) = 0
       THEN phase' = "done" /\ idx' = 0 /\ trace' = trace
       ELSE phase' = "resolving" /\ idx' = 1 /\ trace' = << Event("resolving", 1) >>
    /\ PlanStore(Store)
    /\ UNCHANGED <<plan, pending, results, resolved, now, lastExec>>

\* a missing action ending the whole plan
OracleAnswersNoneAborts ==
    /\ phase = "resolving"
    /\ resolved' = Append(resolved, NoCall)
    /\ results' = Append(results, ResolutionFailed(idx))
    /\ trace' = Append(trace, Event("resolution-failed", idx))
    /\ phase' = "done"
    /\ PlanStore(Store)
    /\ UNCHANGED <<plan, idx, pending, now, lastExec>>

\* the oracle returns no action for step idx
OracleAnswersNone ==
    /\ phase = "resolving"
    /\ resolved' = Append(resolved, NoCall)
    /\ Advance(ResolutionFailed(idx), << Event("resolution-failed", idx) >>)
    /\ PlanStore(Store)
    /\ UNCHANGED <<plan, now, lastExec>>

\* the oracle call itself rejects: no action was obtained for step idx
OracleRejects ==
    /\ phase = "resolving"
    /\ resolved' = Append(resolved, NoCall)
    /\ Advance(ResolutionFailed(idx),
               << Event("oracle-rejected", idx), Event("resolution-failed", idx) >>)
    /\ PlanStore(Store)
    /\ UNCHANGED <<plan, now, lastExec>>

\* execute(call) for a call that runs without suspension; began is what
\* the caller did just before
ExecuteSync(call, began) ==
    LET e == Execute(Store, call.name, call.args)
    IN  /\ PlanStore(e.store)
        /\ Settle(call, e,
                  began \o << Event("executing", idx) >>
                      \o (IF LookupMiss(Store, call)
                          THEN << Event("lookup-miss", idx) >> ELSE << >>)
                      \o Finished(idx, Store, e))

\* execute(call) for generate_voiceover, up to its suspension in generateSpeech
ExecuteAsync(call, began) ==
    /\ IF NoArgs(call.args)
       THEN Settle(call,
                   [store |-> Store, settled |-> "fulfilled",
                    result |-> Failed(call.name, "Cannot read properties of undefined")],
                   began \o << Event("executing", idx), Event("failed", idx) >>)
       ELSE /\ phase' = "speech"
            /\ pending' = call
            /\ trace' = trace \o began \o << Event("executing", idx) >>
            /\ UNCHANGED <<idx, results, lastExec>>
    /\ PlanStore(Store)

\* the oracle returns a call that execute() runs without suspension
OracleAnswersSync(call) ==
    /\ phase = "resolving"
    /\ call.name # "generate_voiceover"
    /\ resolved' = Append(resolved, call)
    /\ ExecuteSync(call, << Event("resolved", idx) >>)
    /\ UNCHANGED <<plan, now>>

\* the oracle returns generate_voiceover: execute() suspends in generateSpeech
OracleAnswersVoiceover(call) ==
    /\ phase = "resolving"
    /\ call.name = "generate_voiceover"
    /\ resolved' = Append(resolved, call)
    /\ ExecuteAsync(call, << Event("resolved", idx) >>)
    /\ UNCHANGED <<plan, now>>

\* generateSpeech rejects: the catch of execute() returns a failed result
SpeechFails ==
    /\ phase = "speech"
    /\ LET e == ExecuteSpeechFailed(Store, pending.args)
       IN  /\ PlanStore(e.store)
           /\ Settle(pending, e, Finished(idx, Store, e))
    /\ UNCHANGED <<plan, resolved, now>>

\* generateSpeech resolves: execute() suspends until the audio metadata event
SpeechReturns ==
    /\ phase = "speech"
    /\ phase' = "audio"
    /\ PlanStore(Store)
    /\ UNCHANGED <<plan, idx, pending, results, resolved, now, trace, lastExec>>

\* onloadedmetadata (a duration) or onerror (NaN): the clip is built and added
AudioLoaded(audioDuration) ==
    /\ phase = "audio"
    /\ LET e == ExecuteVoiceover(Store, pending.args, audioDuration, now)
       IN  /\ PlanStore(e.store)
           /\ Settle(pending, e, Finished(idx, Store, e))
    /\ UNCHANGED <<plan, resolved, now>>

\* time passes; Date.now() is read only when the voiceover clip is built, so
\* only the time that passed by then is told apart
Tick ==
    /\ phase = "audio"
    /\ now < MaxClock
    /\ now' = now + 1
    /\ UNCHANGED <<clips, past, future, listeners, nextRef, calls, last, subscribed,
                   expected, snap, op, pre, preM, postM, preU, steps, ripple,
                   plan, idx, phase, pending, results, resolved, trace, lastExec, verdict>>

Suspended == phase \in {"resolving", "speech", "audio"}

\* handleUndo and handleDelete while the plan waits for an oracle
UserUndo == Suspended /\ steps < MaxEdits /\ Undo
UserDelete(id) == Suspended /\ steps < MaxEdits /\ RemoveClip(id)

InitPlan ==
    /\ InitStore
    /\ plan \in Plans
    /\ idx = 0
    /\ phase = "idle"
    /\ pending = NoCall
    /\ results = <<>>
    /\ resolved = <<>>
    /\ now = 0
    /\ trace = <<>>
    /\ lastExec = NoExec
    /\ verdict = NoVerdict

\* the metadata of the generated audio loads here; a load that fails is part
\* of the single-action path below
NextPlan ==
    \/ StartPlan
    \/ OracleAnswersNone
    \/ OracleRejects
    \/ \E call \in PlanCalls : OracleAnswersSync(call)
    \/ \E call \in PlanCalls : OracleAnswersVoiceover(call)
    \/ SpeechFails
    \/ SpeechReturns
    \/ AudioLoaded(Num(3))
    \/ Tick
    \/ UserUndo
    \/ UserDelete("c2")

SpecPlan == InitPlan /\ [][NextPlan]_vars

KnownTools == SyncTools \cup {"generate_voiceover"}

\* C10: the report of a plan of n steps has exactly n entries, entry i being
\* the outcome of step i, in plan order, whatever failed or succeeded.
C10_ReportMatchesPlan ==
    phase = "done" =>
        /\ Len(results) = Len(plan)
        /\ \A i \in 1..Len(plan) :
              /\ results[i].step = plan[i]
              /\ resolved[i] = NoCall
                    => results[i].status = "resolution-failed"
              /\ resolved[i] # NoCall
                    => /\ results[i].operation = resolved[i].name
                       /\ results[i].status \in {"success", "failed"}
                       /\ resolved[i].name \notin KnownTools => results[i].status = "failed"

C10_Witness ==
    /\ phase = "done"
    /\ Len(plan) = 3
    /\ results[1].status = "failed" /\ results[1].operation = "edit_timeline"
    /\ results[2].status = "resolution-failed"
    /\ results[3].status = "success" /\ results[3].operation = "generate_voiceover"

\* something of this kind happened to step i
HasEvent(kind, i) == \E n \in DOMAIN trace : trace[n] = Event(kind, i)

\* C11: when the oracle gives no action for step k, entry k of the report is
\* resolution-failed, execute() is not called for step k, the next step is
\* taken up, and at the end every step was resolved and, if an action was
\* obtained for it, executed.
C11_ResolutionFailureSkipsNothing ==
    \A k \in 1..Len(resolved) :
        resolved[k] = NoCall =>
            /\ Len(results) >= k
            /\ results[k].status = "resolution-failed"
            /\ ~HasEvent("executing", k)
            /\ k < Len(plan) => HasEvent("resolving", k + 1)
            /\ phase = "done" =>
                  \A i \in 1..Len(plan) :
                      /\ HasEvent("resolving", i)
                      /\ resolved[i] # NoCall =>
                            /\ HasEvent("executing", i)
                            /\ results[i].status \in {"success", "failed"}

C11_Witness ==
    /\ phase = "done"
    /\ Len(plan) = 3
    /\ resolved[2] = NoCall
    /\ ~HasEvent("oracle-rejected", 2)
    /\ results[1].status = "success"
    /\ results[2].status = "resolution-failed"
    /\ results[3].status = "success"
    /\ HasEvent("mutation", 3)

\* the step finished last, and the step that finishes in this transition
LastDone == Len(results)
Finishing == Len(results') = Len(results) + 1

\* C12: a failed execution of step i does not end the plan: the resolution of
\* step i+1 starts, and when the oracle answers it with a call, execute() runs
\* it and the store takes what that call makes of it.
C12_ExecutionFailureDoesNotStopPlan ==
    /\ [](/\ phase # "rejected"
          /\ \A i \in 1..Len(results) :
                (results[i].status = "failed" /\ i < Len(plan))
                    => HasEvent("resolving", i + 1))
    /\ [][(/\ LastDone >= 1
           /\ results[LastDone].status = "failed"
           /\ phase = "resolving"
           /\ Finishing
           /\ resolved'[Len(resolved')].name \in SyncTools)
              => LET call == resolved'[Len(resolved')]
                     e == Execute(Store, call.name, call.args)
                 IN  /\ results'[LastDone + 1].status
                            = IF e.result.success THEN "success" ELSE "failed"
                     /\ <<clips', past', future'>>
                            = <<e.store.clips, e.store.past, e.store.future>>]_vars

C12_Witness ==
    /\ phase = "done"
    /\ Len(plan) = 3
    /\ results[1].status = "failed" /\ results[1].operation = "edit_timeline"
    /\ results[2].status = "failed" /\ results[2].operation = "generate_voiceover"
    /\ results[3].status = "success" /\ results[3].operation = "smart_trim"
    /\ HasEvent("mutation", 3)
    /\ \E n \in 1..Len(clips.items) :
          clips.items[n].id = "c2" /\ clips.items[n].duration = Num(4)

\* the plan without anything else going on; every oracle call and the audio
\* metadata event it waits for settles in the end
NextPlanAlone ==
    \/ StartPlan
    \/ OracleAnswersNone
    \/ OracleRejects
    \/ \E call \in PlanCalls : OracleAnswersSync(call)
    \/ \E call \in PlanCalls : OracleAnswersVoiceover(call)
    \/ SpeechFails
    \/ SpeechReturns
    \/ AudioLoaded(Num(3))

SpecPlanAlone == InitPlan /\ [][NextPlanAlone]_vars

SpecPlanFair == SpecPlanAlone /\ WF_vars(NextPlanAlone)

\* C13: executePlanWithVerification never rejects, whatever the oracles and
\* execute() do (a rejecting oracle call and a failed execution included), and
\* it returns in the end, with a report of one entry per step.
C13_AlwaysReturnsReport ==
    /\ [](phase # "rejected")
    /\ [](phase = "done" => Len(results) = Len(plan))
    /\ <>(phase = "done")

C13_Witness ==
    /\ phase = "done"
    /\ Len(plan) = 3
    /\ HasEvent("oracle-rejected", 1)
    /\ results[2].status = "failed" /\ results[2].operation = "generate_voiceover"
    /\ results[3].status = "failed" /\ results[3].operation = "smart_trim"

Terminal == {"succeeded", "failed", "resolution-failed"}

\* C14: the steps of a plan are taken in array order and one at a time: what
\* happens to a step, its store mutations included, never comes before
\* anything that happens to an earlier step, and the resolution of step i+1
\* starts only after step i has reached a terminal state.
C14_StepsInOrder ==
    /\ Len(trace) > 0 => trace[1] = Event("resolving", 1) /\ trace[Len(trace)].i = idx
    /\ \A n \in 1..(Len(trace) - 1) :
          IF trace[n + 1].e = "resolving"
          THEN trace[n].i = trace[n + 1].i - 1 /\ trace[n].e \in Terminal
          ELSE trace[n].i = trace[n + 1].i /\ trace[n].e \notin Terminal

C14_Witness ==
    /\ phase = "done"
    /\ Len(plan) = 3
    /\ HasEvent("mutation", 1)
    /\ results[2].operation = "generate_voiceover" /\ HasEvent("mutation", 2)
    /\ HasEvent("mutation", 3)

\* the states a step goes through, pending being the state before the first
Paths ==
    { << "resolving", "resolution-failed" >>,
      << "resolving", "resolved", "executing", "succeeded" >>,
      << "resolving", "resolved", "executing", "failed" >> }

IsPrefix(p, q) == Len(p) <= Len(q) /\ p = SubSeq(q, 1, Len(p))

\* the states step i has gone through so far
StepPath(i) ==
    LET own(ev) == ev.i = i /\ ev.e \in {"resolving", "resolved", "executing"} \cup Terminal
        evs == SelectSeq(trace, own)
    IN  [n \in 1..Len(evs) |-> evs[n].e]

\* C15: every step goes pending, resolving, then either resolution-failed or
\* resolved, executing and succeeded or failed: it is executed only after it
\* was resolved, nothing happens to it after its terminal state, the report
\* entry tells that state, and when executePlanWithVerification has settled
\* every step is in a terminal state.
C15_StepLifecycle ==
    \A i \in 1..Len(plan) :
        /\ \E q \in Paths : IsPrefix(StepPath(i), q)
        /\ \A n \in 1..Len(trace) :
              (trace[n].i = i /\ trace[n].e \in Terminal)
                  => \A m \in (n + 1)..Len(trace) : trace[m].i # i
        /\ i <= Len(results) =>
              /\ StepPath(i) \in Paths
              /\ StepPath(i)[Len(StepPath(i))] =
                    (IF results[i].status = "success" THEN "succeeded"
                     ELSE results[i].status)
        /\ phase \in {"done", "rejected"} => StepPath(i) \in Paths

C15_Witness ==
    /\ phase = "done"
    /\ Len(plan) = 3
    /\ StepPath(1) = << "resolving", "resolved", "executing", "succeeded" >>
    /\ StepPath(2) = << "resolving", "resolution-failed" >>
    /\ StepPath(3) = << "resolving", "resolved", "executing", "failed" >>

\* ------------------------------------------------------------------------
\* The single-action path: handleExecuteAIAction
\* ------------------------------------------------------------------------
\* String.prototype.toLowerCase on the tool ids in use
ToLowerCase(id) ==
    CASE id = "GENERATE_TRANSITION" -> "generate_transition"
      [] id = "GENERATE_VOICEOVER" -> "generate_voiceover"
      [] id = "SMART_TRIM" -> "smart_trim"
      [] id = "EDIT_TIMELINE" -> "edit_timeline"
      [] OTHER -> id

\* the ToolActions a chat answer may carry: the ids of the ToolAction type, and
\* the primitive names chatWithGemini copies from a function call
ToolActions ==
    { [tool_id |-> "SMART_TRIM", parameters |-> [clipId |-> "c2", newDuration |-> Num(4)]],
      [tool_id |-> "SMART_TRIM", parameters |-> [missing |-> TRUE]],
      [tool_id |-> "EDIT_TIMELINE",
       parameters |-> [operations |-> << [type |-> "delete", clipId |-> "c1"] >>]],
      [tool_id |-> "GENERATE_VOICEOVER", parameters |-> [text |-> "hi", insertTime |-> Num(1)]],
      [tool_id |-> "GENERATE_TRANSITION", parameters |-> [missing |-> TRUE]],
      [tool_id |-> "update_clip_property",
       parameters |-> [clipId |-> "c1", property |-> "startTime", value |-> Str]],
      [tool_id |-> "ripple_delete", parameters |-> [clipId |-> "c1"]],
      [tool_id |-> "ripple_delete", parameters |-> [clipId |-> "zz"]] }

\* how often execute() was called
Executions == Cardinality({n \in DOMAIN trace : trace[n].e = "executing"})

\* handleExecuteAIAction(action), up to the first suspension of execute()
ExecuteAIAction(action) ==
    /\ phase = "idle"
    /\ Executions < MaxActions
    /\ LET call == [name |-> ToLowerCase(action.tool_id), args |-> action.parameters]
       IN  IF call.name = "generate_voiceover"
           THEN ExecuteAsync(call, << >>)
           ELSE ExecuteSync(call, << >>)
    /\ UNCHANGED <<plan, resolved, now>>

NextAction ==
    \/ \E action \in ToolActions : ExecuteAIAction(action)
    \/ SpeechFails
    \/ SpeechReturns
    \/ \E d \in {NaN, Num(3)} : AudioLoaded(d)
    \/ Tick
    \/ UserUndo
    \/ UserDelete("c2")

SpecAction == Init /\ [][NextAction]_vars

\* C16: execute() never throws or rejects, whatever the name and the args:
\* it settles with a result record for the operation it was called with, and
\* a failure is a record with success = false and an error text.
C16_ExecuteNeverThrows ==
    /\ phase # "rejected"
    /\ lastExec.name # "none" =>
          /\ lastExec.settled = "fulfilled"
          /\ lastExec.result.operation = lastExec.name
          /\ lastExec.result.success = FALSE => lastExec.result.error # ""

C16_Witness ==
    /\ lastExec.name = "smart_trim"
    /\ NoArgs(lastExec.args)
    /\ lastExec.settled = "fulfilled"
    /\ lastExec.result.success = FALSE
    /\ HasEvent("failed", 0)

\* C17: an action that names a clip id the store does not hold when execute()
\* applies it ends as a failure (success = false), not as a success.
C17_LookupMissIsFailure ==
    \A n \in 1..(Len(trace) - 1) :
        trace[n].e = "lookup-miss" => trace[n + 1].e = "failed"

\* the actions that edit existing clips, by the name execute() is given
EditTools == {"update_clip_property", "smart_trim", "ripple_delete", "edit_timeline"}

\* C18: property update, trim, ripple-delete and batch-edit are all applied
\* by execute(): none of them ends in the unknown-operation failure, also when
\* the name is the lower-cased tool_id of a ToolAction.
C18_EditActionsAreApplied ==
    (lastExec.name \in EditTools /\ ~NoArgs(lastExec.args))
        => lastExec.result.error # "Unknown operation: " \o lastExec.name

\* execute() is called in this transition and settles without suspension
Called ==
    /\ \E n \in (Len(trace) + 1)..Len(trace') : trace'[n].e = "executing"
    /\ phase' # "speech"

\* C19: a call whose name execute() does not know returns a failed result
\* whose error names that name, and leaves clips, past and future as they were.
C19_UnknownToolFails ==
    [][(Called /\ lastExec'.name \notin KnownTools)
          => /\ lastExec'.settled = "fulfilled"
             /\ lastExec'.result.success = FALSE
             /\ lastExec'.result.error = "Unknown operation: " \o lastExec'.name
             /\ <<clips', past', future'>> = <<clips, past, future>>]_vars

C19_Witness ==
    /\ lastExec.name = "generate_transition"
    /\ NoArgs(lastExec.args)
    /\ lastExec.result.success = FALSE
    /\ lastExec.result.error = "Unknown operation: generate_transition"
    /\ Len(past) > 0

ToFixed(v) ==
    IF v.t = "num" THEN [thrown |-> FALSE, text |-> ToString(v.n) \o ".00"]
    ELSE IF v.t = "NaN" THEN [thrown |-> FALSE, text |-> "NaN"]
    ELSE [thrown |-> TRUE, text |-> "TypeError"]

\* `${v}` in a template
Template(v) ==
    IF v.t = "num" THEN ToString(v.n)
    ELSE IF v.t = "NaN" THEN "NaN"
    ELSE IF v.t = "null" THEN "null"
    ELSE "undefined"

\* formatClips(clips): one line per clip, or the throw of toFixed
formatClips(l) ==
    IF Len(l.items) = 0 THEN [thrown |-> FALSE, text |-> << "Empty Timeline" >>]
    ELSE IF \E i \in 1..Len(l.items) :
               ToFixed(l.items[i].startTime).thrown \/ ToFixed(l.items[i].duration).thrown
    THEN [thrown |-> TRUE, text |-> << "TypeError" >>]
    ELSE [thrown |-> FALSE,
          text |-> [i \in 1..Len(l.items) |->
                      "[" \o l.items[i].id \o "] | Start: "
                          \o ToFixed(l.items[i].startTime).text \o "s | Dur: "
                          \o ToFixed(l.items[i].duration).text \o "s | Track "
                          \o Template(l.items[i].trackId)]]

\* the ways the judgment oracle call fails: getAiClient throws, generateContent
\* rejects, the response has no text, the text is no JSON
OracleFailures == {"no-client", "rejects", "no-text", "unparsable"}

\* what the judgment oracle may answer when it answers with JSON
Judgments ==
    { [passed |-> TRUE, issues |-> << >>, suggestion |-> "null"],
      [passed |-> FALSE, issues |-> << "gap" >>, suggestion |-> "close the gap"] }

\* the outcomes of the oracle call
OracleOutcomes ==
    { [kind |-> k, answer |-> [passed |-> TRUE, issues |-> << >>, suggestion |-> "null"]] :
         k \in OracleFailures }
      \cup { [kind |-> "json", answer |-> j] : j \in Judgments }

\* what the catch of verify() returns
FailOpen == [passed |-> TRUE, issues |-> << "Verification AI failed" >>, suggestion |-> "null"]

\* verify(intent, operation, preState, postState) with the oracle outcome o:
\* the prompt is built before the try block
verify(preState, postState, o) ==
    IF formatClips(preState).thrown \/ formatClips(postState).thrown
    THEN [settled |-> "rejected", oracle |-> "none", result |-> NoVerdict.result]
    ELSE IF o.kind \in OracleFailures
    THEN [settled |-> "fulfilled", oracle |-> o.kind, result |-> FailOpen]
    ELSE [settled |-> "fulfilled", oracle |-> o.kind, result |-> o.answer]

\* the caller verifies the edits made since it took the list it holds
Verify(o) ==
    /\ snap # NoList
    /\ verdict' = verify(snap, getClips(Store), o)
    /\ UNCHANGED <<clips, past, future, listeners, nextRef, calls, last, subscribed,
                   expected, snap, op, pre, preM, postM, preU, steps, ripple,
                   plan, idx, phase, pending, results, resolved, now, trace, lastExec>>

\* edits by the store's clients, and verifications of them
NextVerify ==
    \/ \E u \in StoreUpdates : UpdateClip("c1", u)
    \/ \E f \in StoreAdds : AddClip(f)
    \/ Undo
    \/ Redo
    \/ GetClips
    \/ \E o \in OracleOutcomes : Verify(o)

SpecVerify == Init /\ [][NextVerify]_vars

\* C21: verify() never throws or rejects, for every pair of clip lists: when
\* the judgment oracle call fails (no client, a rejection, no text, text that
\* is no JSON) it resolves to passed = true with a non-empty issues list and
\* suggestion = null.
C21_VerifyFailsOpen ==
    verdict.settled # "pending" =>
        /\ verdict.settled = "fulfilled"
        /\ verdict.oracle \in OracleFailures =>
              /\ verdict.result.passed
              /\ verdict.result.issues # << >>
              /\ verdict.result.suggestion = "null"

\* ------------------------------------------------------------------------
\* Invariants of the clip collection
\* ------------------------------------------------------------------------
\* C22: in every reachable state no two clips of the live list have the same
\* id, also after repeated generate_voiceover actions and addClip calls.
C22_IdsStayUnique == UniqueIds(clips)

\* v is a number and v > 0, v is a number and v >= 0
Positive(v) == v.t = "num" /\ v.n > 0
NonNegative(v) == v.t = "num" /\ v.n >= 0

\* C23: in every reachable state every clip of the live list has duration > 0
\* and startTime >= 0, whatever numeric parameters the actions were given.
C23_TimingStaysValid ==
    \A i \in 1..Len(clips.items) :
        Positive(clips.items[i].duration) /\ NonNegative(clips.items[i].startTime)

\* ------------------------------------------------------------------------
\* More properties of the store and of the editing verbs
\* ------------------------------------------------------------------------
\* the latest call left the live list, past and future as they were
Untouched == clips = pre.clips /\ past = pre.past /\ future = pre.future

\* C24: undo() with past empty and redo() with future empty leave the live
\* list, past and future unchanged (and raise no error: they return at once).
C24_EmptyStackIsNoop ==
    /\ (LastOp.name \in {"undo", "undoNoop"} /\ pre.past = <<>>)
          => LastOp.name = "undoNoop" /\ Untouched
    /\ (LastOp.name \in {"redo", "redoNoop"} /\ pre.future = <<>>)
          => LastOp.name = "redoNoop" /\ Untouched

C24_Witness ==
    /\ Len(op) = 3 /\ op[1].name = "addClip" /\ op[2].name = "undo" /\ op[3].name = "undoNoop"
    /\ past = <<>>
    /\ Len(future) = 1
    /\ Untouched

\* C25: TimelineOps.moveClip(store, id, startTime) without a trackId sets the
\* clip's startTime and keeps its trackId, changing no other clip; with an id
\* that is not in the store it changes nothing (clips, past, future).
C25_MoveKeepsTrack ==
    LastOp.name = "opsMoveClip" =>
        IF LastOp.id \notin Ids(pre.clips)
        THEN Untouched
        ELSE /\ Len(clips.items) = Len(pre.clips.items)
             /\ \A i \in 1..Len(pre.clips.items) :
                   IF pre.clips.items[i].id = LastOp.id
                   THEN PlainClip(clips.items[i])
                          = [PlainClip(pre.clips.items[i]) EXCEPT !.startTime = MoveTo]
                   ELSE clips.items[i] = pre.clips.items[i]

\* the number of clips the latest rippleDelete had to shift
ShiftCount ==
    LET clip == ripple.list.items[FindIndex(ripple.list.items, ripple.id)]
    IN  Len(ClipsToShift(FilterOut(ripple.list.items, ripple.id), clip))

VoiceoverActions ==
    { [tool_id |-> "GENERATE_VOICEOVER", parameters |-> [text |-> "hi", insertTime |-> Num(1)]],
      [tool_id |-> "generate_voiceover",
       parameters |-> [text |-> "hi", insertTime |-> Num(1), trackId |-> Num(0)]],
      [tool_id |-> "generate_voiceover",
       parameters |-> [text |-> "hi", insertTime |-> Num(4), trackId |-> Num(3)]] }

NextVoiceover ==
    \/ \E action \in VoiceoverActions : ExecuteAIAction(action)
    \/ SpeechFails
    \/ SpeechReturns
    \/ \E d \in {NaN, Num(3)} : AudioLoaded(d)
    \/ Tick

SpecVoiceover == Init /\ [][NextVoiceover]_vars

\* a generate_voiceover execution returns success in this transition
VoiceoverDone ==
    /\ phase = "audio"
    /\ phase' # "audio"
    /\ lastExec'.result.success

\* the clip at the end of the live list after this transition
Added == clips'.items[Len(clips'.items)]

\* C27: a successful generate_voiceover adds exactly one clip in exactly one
\* history entry, with startTime equal to insertTime, on the requested trackId
\* whenever one is supplied (track 0 included) and on track 2 only when none
\* is supplied; the returned clipId is the id of the new clip.
C27_VoiceoverAddsOneClip ==
    [][VoiceoverDone =>
          /\ Len(clips'.items) = Len(clips.items) + 1
          /\ SubSeq(clips'.items, 1, Len(clips.items)) = clips.items
          /\ Len(past') = Len(past) + 1
          /\ Added.startTime = NumArg(pending.args, "insertTime")
          /\ Added.trackId = IF "trackId" \in DOMAIN pending.args
                             THEN NumArg(pending.args, "trackId") ELSE Num(2)
          /\ lastExec'.result.clipId = Added.id]_vars

\* execute() resumes after its suspension and runs to its return
Resumes == phase \in {"speech", "audio"} /\ phase' \notin {"speech", "audio"}

HeldLists ==
    ({snap, pre.clips, preM, postM, preU} \cup {last[cb] : cb \in Callbacks}) \ {NoList}

\* the lists the store holds now
StoreLists ==
    {clips} \cup {past[i] : i \in 1..Len(past)} \cup {future[i] : i \in 1..Len(future)}

\* every primitive, undo and redo called by clients that hold lists
NextHeld ==
    \/ GetClips
    \/ \E cb \in Callbacks : Subscribe(cb)
    \/ SetClipsFresh
    \/ SetClipsHeld
    \/ \E f \in StoreAdds : AddClip(f)
    \/ RemoveClip("c1")
    \/ UpdateClip("c1", [duration |-> Num(3)])
    \/ MoveClip("c1", Num(2), Num(2))
    \/ Undo
    \/ Redo

SpecHeld == Init /\ [][NextHeld]_vars

\* the same array object has the same elements, the same clip object the same fields
SameObjects(a, b) ==
    /\ a.ref = b.ref => a.items = b.items
    /\ \A i \in 1..Len(a.items), j \in 1..Len(b.items) :
          a.items[i].ref = b.items[j].ref => a.items[i] = b.items[j]

\* C29: a list obtained from getClips() or delivered to a subscriber is never
\* modified by later store calls: wherever the same array or clip object is
\* met again, in the live list or in the history, it has the clips and the
\* field values it had when it was obtained.
C29_HeldListsAreNotModified ==
    \A a \in HeldLists : \A b \in HeldLists \cup StoreLists : SameObjects(a, b)

C29_Witness ==
    /\ snap # NoList
    /\ LastOp.name = "undo" /\ PrevOp.name = "addClip"
    /\ clips.ref # snap.ref
    /\ ~DeepEqual(clips, snap)
    /\ Len(snap.items) = 3
    /\ \E i \in 1..Len(future) : future[i].ref = snap.ref /\ future[i] = snap

\* ------------------------------------------------------------------------
\* rippleDelete of a clip that is not there
\* ------------------------------------------------------------------------
\* rippleDelete is called in this transition with an id no clip has
RippleDeleteMisses ==
    /\ steps' = steps + 1
    /\ op'[Len(op')].name = "rippleDelete"
    /\ op'[Len(op')].id \notin Ids(clips)

\* C30: TimelineOps.rippleDelete with an id that is not in the store changes
\* nothing: the live list, past and future stay as they are (no history
\* entry, the redo stack is kept) and no subscriber is called.
C30_RippleDeleteUnknownId ==
    [][RippleDeleteMisses => UNCHANGED <<clips, past, future, calls, last>>]_vars

C30_Witness ==
    /\ LastOp = [name |-> "rippleDelete", id |-> "zz"]
    /\ PrevOp.name = "undo"
    /\ Len(future) = 1
    /\ subscribed["cb"] = "active"
    /\ calls["cb"] = 3
    /\ Untouched

====
